---- MODULE Spec2Model ----
(***************************************************************************)
(* Model of the `review` command of pm-cli (src/commands/review.ts), its   *)
(* PR resolution, the normalisation of the generator's answer, the         *)
(* approval session and the two-tier delivery of lib/github.ts postReview. *)
(*                                                                         *)
(* One run of the command is one behaviour.  Every await / external call   *)
(* of the handler is one action; the environment's answers (operator       *)
(* input, gh / git results, the generator's response) are drawn with \E at *)
(* the call that reads them.  The fields title, file, line, why and        *)
(* confidence of a finding are never written by the command and are left   *)
(* out of the finding records; id, severity, body and approved are kept.   *)
(***************************************************************************)
EXTENDS Integers, Sequences, FiniteSets

\* ---- bounds of the model ------------------------------------------------
MaxFindings == 2      \* longest array the generator answers with

\* ---- values ---------------------------------------------------------------
Severities == {"critical", "warning", "suggestion"}

SEVERITY_ORDER == [critical |-> 0, warning |-> 1, suggestion |-> 2]

Null == "null"

WhiteSpace == {" ", "\n"}

\* the diffs getPRDiff may return: no text, white space only, or a change
\* surrounded by white space
Diffs == {<<>>, <<" ">>, <<"\n">>, <<" ", "\n">>, <<" ", "x", "\n">>}

\* what the operator can type at the "Enter updated comment" prompt
EditTexts == {"", "e1"}

\* the substrings postReview looks for in the error message of gh
ThreadToken == "pull_request_review_thread"

ValidationToken == "Validation Failed"

\* ---- pure functions of the command -----------------------------------------

RECURSIVE TrimStart(_)
TrimStart(s) ==
  IF s # <<>> /\ Head(s) \in WhiteSpace THEN TrimStart(Tail(s)) ELSE s

RECURSIVE TrimEnd(_)
TrimEnd(s) ==
  IF s # <<>> /\ s[Len(s)] \in WhiteSpace
  THEN TrimEnd(SubSeq(s, 1, Len(s) - 1)) ELSE s

\* String.prototype.trim
Trim(s) == TrimEnd(TrimStart(s))

DiffIsEmpty_NoTrim(d) == d = <<>>

\* review.ts: if (!diff.trim())
DiffIsEmpty(d) == Trim(d) = <<>>

\* the ids the generator puts on the n elements of its array: 1..n as the
\* prompt asks, the same backwards, or 1 on every element
IdSchemes == {"sequential", "reversed", "constant"}

SchemeId(scheme, i, n) ==
  CASE scheme = "sequential" -> i
    [] scheme = "reversed" -> n + 1 - i
    [] scheme = "constant" -> 1

\* an array of n finding-shaped objects as the generator may emit it; the
\* objects may already carry an approved field
RawItems(n, scheme, sevs, ap) ==
  [i \in 1..n |->
     [id |-> SchemeId(scheme, i, n), severity |-> sevs[i], body |-> "b0",
      approved |-> ap]]

\* ---- the generator's answer as text ----------------------------------------
\* A text is what stands before its payload, the payload, and what stands
\* behind it.  The payload is the part JSON.parse has to decode: a JSON array
\* of objects, another JSON value, or something that is no JSON ("garbage").
\* What stands around it is a sequence of the tokens "fence" (the three
\* backticks of a markdown code fence), "json", "js" (any
\* other language tag), "x" (any other text), " " and "\n".
ArrayValue(items) == [type |-> "array", items |-> items]

ObjectValue == [type |-> "object", items |-> <<>>]

Garbage == [type |-> "garbage", items |-> <<>>]

Text(pre, payload, post) == [pre |-> pre, payload |-> payload, post |-> post]

\* the three backticks that open and close a markdown code fence
FenceToken == "fence"

\* JSON.stringify of a value, bare
Bare(value) == Text(<<>>, value, <<>>)

\* the same inside a code fence with the json language tag
FencedJson(value) == Text(<<FenceToken, "json", "\n">>, value, <<"\n", FenceToken>>)

\* anthropic.ts: textBlock.text.trim()
TrimText(t) == Text(TrimStart(t.pre), t.payload, TrimEnd(t.post))

\* anthropic.ts: jsonStr.startsWith(three backticks)
StartsWithFence(t) == t.pre # <<>> /\ Head(t.pre) = FenceToken

\* anthropic.ts: the first replace: the opening backticks, then "json" if it
\* is there, then one line feed if it is there
StripOpeningFence(t) ==
  LET p1 == Tail(t.pre)
      p2 == IF p1 # <<>> /\ Head(p1) = "json" THEN Tail(p1) ELSE p1
      p3 == IF p2 # <<>> /\ Head(p2) = "\n" THEN Tail(p2) ELSE p2
  IN  Text(p3, t.payload, t.post)

\* anthropic.ts: the second replace: the backticks at the very end with the
\* line feed before them if there is one
StripClosingFence(t) ==
  IF t.post # <<>> /\ t.post[Len(t.post)] = FenceToken
  THEN LET q1 == SubSeq(t.post, 1, Len(t.post) - 1)
           q2 == IF q1 # <<>> /\ q1[Len(q1)] = "\n"
                 THEN SubSeq(q1, 1, Len(q1) - 1) ELSE q1
       IN  Text(t.pre, t.payload, q2)
  ELSE t

StripFence_OpeningOnly(t) ==
  IF StartsWithFence(t) THEN StripOpeningFence(t) ELSE t

\* anthropic.ts: the markdown unwrapping of jsonStr
StripFence(t) ==
  IF StartsWithFence(t) THEN StripClosingFence(StripOpeningFence(t)) ELSE t

\* JSON.parse: the text decodes when its payload is JSON and only JSON white
\* space stands around it
JsonParses(t) ==
  /\ t.payload.type # "garbage"
  /\ \A i \in DOMAIN t.pre : t.pre[i] \in WhiteSpace
  /\ \A i \in DOMAIN t.post : t.post[i] \in WhiteSpace

\* the arrays of finding-shaped objects the generator may answer with
RawArrays ==
  UNION {{ArrayValue(RawItems(n, scheme, sevs, ap)) :
            scheme \in IdSchemes, sevs \in [1..n -> Severities],
            ap \in {Null, "true"}} : n \in 0..MaxFindings}

\* what the generator call may give: the call throws, the response has no
\* text block, or it has a text: something that is no JSON, a JSON object, or
\* an array of finding-shaped objects, bare or in a json code fence
Responses ==
  [kind : {"apiError", "noText"}, text : {Bare(Garbage)}]
    \cup [kind : {"text"},
          text : {Bare(Garbage), Bare(ObjectValue)}
                   \cup {Bare(v) : v \in RawArrays}
                   \cup {FencedJson(v) : v \in RawArrays}]

\* anthropic.ts reviewWithAI: jsonStr as handed to JSON.parse
JsonStr(resp) == StripFence(TrimText(resp.text))

\* anthropic.ts reviewWithAI: the cases in which it throws
ReviewThrows(resp) ==
  \/ resp.kind \in {"apiError", "noText"}
  \/ ~JsonParses(JsonStr(resp))
  \/ JsonStr(resp).payload.type # "array"

\* anthropic.ts reviewWithAI: ({ ...f, approved: null })
NormalizeItem(f) ==
  [k \in DOMAIN f \cup {"approved"} |->
     IF k = "approved" THEN Null ELSE f[k]]

\* anthropic.ts reviewWithAI: findings.map((f) => ({ ...f, approved: null }))
Normalize(resp) ==
  LET items == JsonStr(resp).payload.items
  IN  [i \in 1..Len(items) |-> NormalizeItem(items[i])]

Rank(f) == SEVERITY_ORDER[f.severity]

InsertStable_BeforeEquals(s, f) ==
  LET k == Cardinality({i \in 1..Len(s) : Rank(s[i]) < Rank(f)})
  IN  SubSeq(s, 1, k) \o <<f>> \o SubSeq(s, k + 1, Len(s))

\* one step of a stable insertion: f goes behind every element whose rank is
\* not larger than its own (s is sorted, so these form a prefix)
InsertStable(s, f) ==
  LET k == Cardinality({i \in 1..Len(s) : Rank(s[i]) <= Rank(f)})
  IN  SubSeq(s, 1, k) \o <<f>> \o SubSeq(s, k + 1, Len(s))

RECURSIVE SortBySeverity(_)
\* review.ts: findings.sort((a, b) => SEVERITY_ORDER[a] - SEVERITY_ORDER[b]),
\* Array.prototype.sort is stable
SortBySeverity(s) ==
  IF s = <<>> THEN <<>>
  ELSE InsertStable(SortBySeverity(SubSeq(s, 1, Len(s) - 1)), s[Len(s)])

NoFindings_Never(fs) == Len(fs) < 0

\* review.ts: if (findings.length === 0)
NoFindings(fs) == Len(fs) = 0

CountOf(fs, sev) == Cardinality({i \in 1..Len(fs) : fs[i].severity = sev})

\* review.ts: criticals / warnings / suggestions and the summary line
SummaryCounts(fs) ==
  [total |-> Len(fs),
   critical |-> CountOf(fs, "critical"),
   warning |-> CountOf(fs, "warning"),
   suggestion |-> CountOf(fs, "suggestion")]

PostRequested_Always(post) == TRUE

\* review.ts: if (!opts.post) ... return
PostRequested(post) == post

IsApproved(f) == f.approved = "true"

ApprovedFindings_All(fs) == fs

\* review.ts: findings.filter((f) => f.approved === true)
ApprovedFindings(fs) == SelectSeq(fs, IsApproved)

NothingApproved_Never(ap) == Len(ap) < 0

\* review.ts: if (approved.length === 0)
NothingApproved(ap) == Len(ap) = 0
ApplyAction_BlankClears(f, action, text) ==
  CASE action = "approve" -> [f EXCEPT !.approved = "true"]
    [] action = "skip" -> [f EXCEPT !.approved = "false"]
    [] action = "edit" -> [f EXCEPT !.body = text, !.approved = "true"]

\* review.ts interactiveApproval: the effect of one answer on one finding
ApplyAction(f, action, text) ==
  CASE action = "approve" -> [f EXCEPT !.approved = "true"]
    [] action = "skip" -> [f EXCEPT !.approved = "false"]
    [] action = "edit" ->
         [f EXCEPT !.body = IF text = "" THEN f.body ELSE text,
                   !.approved = "true"]

ApproveFinding_Through(fs, i, action, text) ==
  [j \in 1..Len(fs) |->
     IF j >= i THEN ApplyAction(fs[j], action, text) ELSE fs[j]]

\* review.ts interactiveApproval: one pass of the loop body, which assigns to
\* the finding the loop is at and to nothing else
ApproveFinding(fs, i, action, text) ==
  [fs EXCEPT ![i] = ApplyAction(fs[i], action, text)]

\* review.ts: pr.repo || config.githubRepo || detectRepoFromGit() || ''
ResolveRepo(prRepoV, cfgRepo, gitRepo) ==
  IF prRepoV # "" THEN prRepoV
  ELSE IF cfgRepo # "" THEN cfgRepo
  ELSE gitRepo

\* github.ts formatCommentBody: label of the severity and the body
FormatCommentBody(f) == [severity |-> f.severity, body |-> f.body]

\* github.ts formatSummaryBody: the review's summary line and one table row
\* per approved finding
FormatSummaryBody(review, approved) ==
  [summary |-> review.summary,
   rows |-> [i \in 1..Len(approved) |->
               [id |-> approved[i].id, severity |-> approved[i].severity]]]

\* github.ts postReview: the comments of the structured review
InlineComments(approved) ==
  [i \in 1..Len(approved) |-> FormatCommentBody(approved[i])]

\* the results of the primary gh api call: success, or a failure with its
\* real cause and the tokens its error message contains.  A failure caused by
\* anchors outside the diff names the pull_request_review_thread field; a host
\* validation failure unrelated to anchors says "Validation Failed" without
\* it; any other failure (network, auth, not found) carries neither token.
PrimaryOutcomes ==
  {[ok |-> TRUE, cause |-> "none", msg |-> {}],
   [ok |-> FALSE, cause |-> "anchor", msg |-> {ThreadToken}],
   [ok |-> FALSE, cause |-> "validation", msg |-> {ValidationToken}],
   [ok |-> FALSE, cause |-> "other", msg |-> {}]}

IsFallbackError_ThreadOnly(msg) == ThreadToken \in msg

\* github.ts postReview: msg.includes('pull_request_review_thread') ||
\* msg.includes('Validation Failed')
IsFallbackError(msg) == ThreadToken \in msg \/ ValidationToken \in msg

\* ---- state -------------------------------------------------------------------
VARIABLES
  pc,           \* position of the handler
  prArg,        \* the [pr] argument: "none", "digits" or "nodigits"
  optsPost,     \* opts.post
  env,          \* process.env after loadConfig: anthropicApiKey, githubRepo
  gitRepo,      \* what detectRepoFromGit() returns ("" when it returns null)
  prSource,     \* how pr was resolved: "none", "explicit", "detected", "selected"
  resolution,   \* what resolvePR met without a [pr] argument, in order
  prRepo,       \* pr.repo
  diff,         \* the fetched diff
  diffFetched,  \* getPRDiff has returned
  genCalls,     \* number of calls of reviewWithAI
  genResult,    \* how the last call ended: "none", "threw" or "returned"
  findings,     \* the findings array
  counts,       \* criticals / warnings / suggestions / findings.length
  apIdx,        \* index of the finding the approval session is at
  approved,     \* the approved array
  fbIdx,        \* index of the fallback loop over approvedFindings
  recordFile,   \* the review record on disk: <<>> or <<reviewFile>>
  recordWrites, \* number of writes of the record
  hostCalls,    \* host-mutating calls attempted so far, with their results
  prompts,      \* prompts the operator has answered
  phaseLog,     \* phases entered so far
  exitCode,     \* -1 while running, then the exit status
  outcome,      \* the terminal outcome
  fnIn,         \* the argument of a function taken on its own
  fnOut         \* what that function returned

vars ==
  <<pc, prArg, optsPost, env, gitRepo, prSource, resolution, prRepo, diff, diffFetched,
    genCalls, genResult, findings, counts, apIdx, approved, fbIdx, recordFile,
    recordWrites, hostCalls, prompts, phaseLog, exitCode, outcome,
    fnIn, fnOut>>

NoCounts == [total |-> 0, critical |-> 0, warning |-> 0, suggestion |-> 0]

\* fnIn and fnOut while no function is taken on its own
NoCall == [fn |-> "none"]

\* what the handler has done before it runs: nothing
NothingDoneYet ==
  /\ prSource = "none"
  /\ resolution = <<>>
  /\ prRepo = ""
  /\ diff = <<>>
  /\ diffFetched = FALSE
  /\ genCalls = 0
  /\ genResult = "none"
  /\ findings = <<>>
  /\ counts = NoCounts
  /\ apIdx = 0
  /\ approved = <<>>
  /\ fbIdx = 0
  /\ recordFile = <<>>
  /\ recordWrites = 0
  /\ hostCalls = <<>>
  /\ prompts = <<>>
  /\ phaseLog = <<>>
  /\ exitCode = -1
  /\ outcome = "running"

\* the state of the review command before its handler runs
HandlerAtStart ==
  /\ pc = "start"
  /\ prArg \in {"none", "digits", "nodigits"}
  /\ optsPost \in BOOLEAN
  /\ env \in [anthropicApiKey : {"", "key"}, githubRepo : {"", "cfg/repo"}]
  /\ gitRepo \in {"", "git/repo"}
  \* GITHUB_REPO is read only when the git remote names no repository
  /\ gitRepo # "" => env.githubRepo = ""
  /\ NothingDoneYet

Init ==
  /\ HandlerAtStart
  /\ fnIn = NoCall
  /\ fnOut = NoCall

\* the handler ends: process.exit(1), an uncaught exception (exit status 1),
\* or a return from the handler (exit status 0)
Exit(code, out) ==
  /\ pc' = "exited"
  /\ exitCode' = code
  /\ outcome' = out
  /\ phaseLog' = Append(phaseLog, IF code = 0 THEN "Done" ELSE "Fatal")
  /\ UNCHANGED <<fnIn, fnOut>>

Goto(next) ==
  /\ pc' = next
  /\ UNCHANGED <<exitCode, outcome, phaseLog, fnIn, fnOut>>

Enter(next, phase) ==
  /\ pc' = next
  /\ phaseLog' = Append(phaseLog, phase)
  /\ UNCHANGED <<exitCode, outcome, fnIn, fnOut>>

\* ---- actions -------------------------------------------------------------------

\* review.ts: loadConfig(opts.env) and the ANTHROPIC_API_KEY check
LoadConfig ==
  /\ pc = "start"
  /\ \E profile \in {"none", "found", "missing"} :
       IF profile = "missing" \/ env.anthropicApiKey = ""
       THEN Exit(1, "fatalConfig")
       ELSE Enter("checkGh", "ResolvingPR")
  /\ UNCHANGED <<prArg, resolution, optsPost, env, gitRepo, prSource, prRepo, diff,
                 diffFetched, genCalls, genResult, findings, counts, apIdx, approved,
                 fbIdx, recordFile, recordWrites, hostCalls, prompts>>

\* resolvePR: checkGhCli()
CheckGhCli ==
  /\ pc = "checkGh"
  /\ \E ghOk \in BOOLEAN :
       IF ghOk THEN Goto("resolveArg") ELSE Exit(1, "fatalResolve")
  /\ UNCHANGED <<prArg, resolution, optsPost, env, gitRepo, prSource, prRepo, diff,
                 diffFetched, genCalls, genResult, findings, counts, apIdx, approved,
                 fbIdx, recordFile, recordWrites, hostCalls, prompts>>

\* resolvePR: the branch if (prArg)
ResolveExplicit ==
  /\ pc = "resolveArg"
  /\ prArg # "none"
  /\ \E infoOk \in BOOLEAN :
       IF prArg = "nodigits" \/ ~infoOk
       THEN /\ Exit(1, "fatalResolve")
            /\ UNCHANGED <<prSource, prRepo>>
       ELSE /\ Enter("gather", "GatheringContext")
            /\ prSource' = "explicit"
            /\ prRepo' = gitRepo
  /\ UNCHANGED <<prArg, resolution, optsPost, env, gitRepo, diff, diffFetched, genCalls, genResult,
                 findings, counts, apIdx, approved, fbIdx, recordFile,
                 recordWrites, hostCalls, prompts>>

\* resolvePR: detectPR()
DetectPR ==
  /\ pc = "resolveArg"
  /\ prArg = "none"
  /\ \E detected \in BOOLEAN :
       IF detected
       THEN /\ Goto("confirmPR")
            /\ resolution' = Append(resolution, "detected")
       ELSE /\ Goto("listPRs")
            /\ resolution' = Append(resolution, "notDetected")
  /\ UNCHANGED <<prArg, optsPost, env, gitRepo, prSource, prRepo, diff,
                 diffFetched, genCalls, genResult, findings, counts, apIdx, approved,
                 fbIdx, recordFile, recordWrites, hostCalls, prompts>>

ConfirmPR_DeclineStillUses ==
  /\ pc = "confirmPR"
  /\ prompts' = Append(prompts, "confirmPR")
  /\ \E shouldUse \in BOOLEAN :
       /\ Enter("gather", "GatheringContext")
       /\ resolution' =
            Append(resolution, IF shouldUse THEN "confirmed" ELSE "declined")
       /\ prSource' = "detected"
       /\ prRepo' = gitRepo
  /\ UNCHANGED <<prArg, optsPost, env, gitRepo, diff, diffFetched, genCalls,
                 genResult, findings, counts, apIdx, approved, fbIdx,
                 recordFile, recordWrites, hostCalls>>

\* resolvePR: the answer to "Review this one?"
ConfirmPR ==
  /\ pc = "confirmPR"
  /\ prompts' = Append(prompts, "confirmPR")
  /\ \E shouldUse \in BOOLEAN :
       IF shouldUse
       THEN /\ Enter("gather", "GatheringContext")
            /\ resolution' = Append(resolution, "confirmed")
            /\ prSource' = "detected"
            /\ prRepo' = gitRepo
       ELSE /\ Goto("listPRs")
            /\ resolution' = Append(resolution, "declined")
            /\ UNCHANGED <<prSource, prRepo>>
  /\ UNCHANGED <<prArg, optsPost, env, gitRepo, diff, diffFetched, genCalls, genResult,
                 findings, counts, apIdx, approved, fbIdx, recordFile,
                 recordWrites, hostCalls>>

\* resolvePR: listOpenPRs() and the empty-list check
ListOpenPRs ==
  /\ pc = "listPRs"
  /\ \E empty \in BOOLEAN :
       IF empty
       THEN /\ Exit(1, "fatalResolve")
            /\ resolution' = Append(resolution, "listEmpty")
       ELSE /\ Goto("selectPR")
            /\ resolution' = Append(resolution, "listed")
  /\ UNCHANGED <<prArg, optsPost, env, gitRepo, prSource, prRepo, diff,
                 diffFetched, genCalls, genResult, findings, counts, apIdx, approved,
                 fbIdx, recordFile, recordWrites, hostCalls, prompts>>

\* resolvePR: the answer to "Select a PR to review:" and getPRInfo(selected)
SelectPR ==
  /\ pc = "selectPR"
  /\ prompts' = Append(prompts, "selectPR")
  /\ resolution' = Append(resolution, "selected")
  /\ \E infoOk \in BOOLEAN :
       IF infoOk
       THEN /\ Enter("gather", "GatheringContext")
            /\ prSource' = "selected"
            /\ prRepo' = gitRepo
       ELSE /\ Exit(1, "fatalResolve")
            /\ UNCHANGED <<prSource, prRepo>>
  /\ UNCHANGED <<prArg, optsPost, env, gitRepo, diff, diffFetched, genCalls, genResult,
                 findings, counts, apIdx, approved, fbIdx, recordFile,
                 recordWrites, hostCalls>>

\* review.ts Phase 1: getPRDiff, getChangedFiles, the empty-diff check
GatherContext ==
  /\ pc = "gather"
  /\ \E fetchOk \in BOOLEAN, d \in Diffs :
       IF ~fetchOk
       THEN /\ Exit(1, "crash")
            /\ UNCHANGED <<diff, diffFetched>>
       ELSE /\ diff' = d
            /\ diffFetched' = TRUE
            /\ IF DiffIsEmpty(d)
               THEN Exit(0, "nothingToReview")
               ELSE Enter("analyze", "Analyzing")
  /\ UNCHANGED <<prArg, resolution, optsPost, env, gitRepo, prSource, prRepo, genCalls, genResult,
                 findings, counts, apIdx, approved, fbIdx, recordFile,
                 recordWrites, hostCalls, prompts>>
Analyze_RetryOnce ==
  /\ pc = "analyze"
  /\ genCalls' = genCalls + 1
  /\ \E resp \in Responses :
       IF ReviewThrows(resp)
       THEN /\ genResult' = "threw"
            /\ IF genCalls = 0 THEN Goto("analyze")
               ELSE Exit(1, "fatalGeneration")
            /\ UNCHANGED findings
       ELSE /\ genResult' = "returned"
            /\ findings' = Normalize(resp)
            /\ IF NoFindings(Normalize(resp))
               THEN Exit(0, "noIssues")
               ELSE Enter("report", "Reporting")
  /\ UNCHANGED <<prArg, resolution, optsPost, env, gitRepo, prSource, prRepo, diff,
                 diffFetched, counts, apIdx, approved, fbIdx, recordFile,
                 recordWrites, hostCalls, prompts>>

\* review.ts Phase 2: reviewWithAI, its catch, the zero-findings check
Analyze ==
  /\ pc = "analyze"
  /\ genCalls' = genCalls + 1
  /\ \E resp \in Responses :
       IF ReviewThrows(resp)
       THEN /\ genResult' = "threw"
            /\ Exit(1, "fatalGeneration")
            /\ UNCHANGED findings
       ELSE /\ genResult' = "returned"
            /\ findings' = Normalize(resp)
            /\ IF NoFindings(Normalize(resp))
               THEN Exit(0, "noIssues")
               ELSE Enter("report", "Reporting")
  /\ UNCHANGED <<prArg, resolution, optsPost, env, gitRepo, prSource, prRepo, diff,
                 diffFetched, counts, apIdx, approved, fbIdx, recordFile,
                 recordWrites, hostCalls, prompts>>

Report_SkipApproval ==
  /\ pc = "report"
  /\ findings' = SortBySeverity(findings)
  /\ counts' = SummaryCounts(findings)
  /\ IF PostRequested(optsPost)
     THEN Goto("approvalDone")
     ELSE Exit(0, "reportOnly")
  /\ UNCHANGED <<prArg, resolution, optsPost, env, gitRepo, prSource, prRepo, diff,
                 diffFetched, genCalls, genResult, apIdx, approved, fbIdx, recordFile,
                 recordWrites, hostCalls, prompts>>

\* review.ts: sort, counts, printFindings, the --post check
Report ==
  /\ pc = "report"
  /\ findings' = SortBySeverity(findings)
  /\ counts' = SummaryCounts(findings)
  /\ IF PostRequested(optsPost)
     THEN /\ Enter("approve", "ApprovalPending")
          /\ apIdx' = 1
     ELSE /\ Exit(0, "reportOnly")
          /\ UNCHANGED apIdx
  /\ UNCHANGED <<prArg, resolution, optsPost, env, gitRepo, prSource, prRepo, diff,
                 diffFetched, genCalls, genResult, approved, fbIdx, recordFile,
                 recordWrites, hostCalls, prompts>>

Approve_PostsAtOnce ==
  /\ pc = "approve"
  /\ apIdx \in 1..Len(findings)
  /\ \E action \in {"approve", "skip", "edit"}, text \in EditTexts :
       /\ findings' = ApproveFinding(findings, apIdx, action, text)
       /\ prompts' =
            IF action = "edit"
            THEN prompts \o <<"selectAction", "inputBody">>
            ELSE Append(prompts, "selectAction")
       /\ hostCalls' =
            IF action = "skip" THEN hostCalls
            ELSE Append(hostCalls,
                        [op |-> "createComment",
                         body |-> <<>>,
                         comments |-> <<FormatCommentBody(findings'[apIdx])>>,
                         ok |-> TRUE, cause |-> "none", msg |-> {}])
  /\ apIdx' = apIdx + 1
  /\ IF apIdx = Len(findings) THEN Goto("approvalDone") ELSE Goto("approve")
  /\ UNCHANGED <<prArg, resolution, optsPost, env, gitRepo, prSource, prRepo, diff,
                 diffFetched, genCalls, genResult, counts, approved, fbIdx,
                 recordFile, recordWrites>>

\* review.ts interactiveApproval: one finding's prompt(s) and their effect
Approve ==
  /\ pc = "approve"
  /\ apIdx \in 1..Len(findings)
  /\ \E action \in {"approve", "skip", "edit"}, text \in EditTexts :
       /\ findings' = ApproveFinding(findings, apIdx, action, text)
       /\ prompts' =
            IF action = "edit"
            THEN prompts \o <<"selectAction", "inputBody">>
            ELSE Append(prompts, "selectAction")
  /\ apIdx' = apIdx + 1
  /\ IF apIdx = Len(findings) THEN Goto("approvalDone") ELSE Goto("approve")
  /\ UNCHANGED <<prArg, resolution, optsPost, env, gitRepo, prSource, prRepo, diff,
                 diffFetched, genCalls, genResult, counts, approved, fbIdx, recordFile,
                 recordWrites, hostCalls>>

\* review.ts: the approved filter and the nothing-approved check
FilterApproved ==
  /\ pc = "approvalDone"
  /\ approved' = ApprovedFindings(findings)
  /\ IF NothingApproved(ApprovedFindings(findings))
     THEN Exit(0, "nothingApproved")
     ELSE Enter("confirmPost", "Posting")
  /\ UNCHANGED <<prArg, resolution, optsPost, env, gitRepo, prSource, prRepo, diff,
                 diffFetched, genCalls, genResult, findings, counts, apIdx, fbIdx,
                 recordFile, recordWrites, hostCalls, prompts>>

\* review.ts: the answer to "Post n comment(s)?" and the repo check
ConfirmPost ==
  /\ pc = "confirmPost"
  /\ prompts' = Append(prompts, "confirmPost")
  /\ \E shouldPost \in BOOLEAN :
       IF ~shouldPost THEN Exit(0, "cancelled")
       ELSE IF ResolveRepo(prRepo, env.githubRepo, gitRepo) = ""
       THEN Exit(1, "fatalConfig")
       ELSE Goto("saveReview")
  /\ UNCHANGED <<prArg, resolution, optsPost, env, gitRepo, prSource, prRepo, diff,
                 diffFetched, genCalls, genResult, findings, counts, apIdx, approved,
                 fbIdx, recordFile, recordWrites, hostCalls>>

SaveReview_NoWrite ==
  /\ pc = "saveReview"
  /\ Goto("postReview")
  /\ UNCHANGED <<prArg, resolution, optsPost, env, gitRepo, prSource, prRepo, diff,
                 diffFetched, genCalls, genResult, findings, counts, apIdx, approved,
                 fbIdx, recordFile, recordWrites, hostCalls, prompts>>

\* review.ts: build reviewFile, mkdirSync, writeFileSync
SaveReview ==
  /\ pc = "saveReview"
  /\ \E writeOk \in BOOLEAN :
       IF writeOk
       THEN /\ recordFile' =
                 <<[repo |-> ResolveRepo(prRepo, env.githubRepo, gitRepo),
                    summary |-> counts,
                    findings |-> findings]>>
            /\ recordWrites' = recordWrites + 1
            /\ Goto("postReview")
       ELSE /\ Exit(1, "crash")
            /\ UNCHANGED <<recordFile, recordWrites>>
  /\ UNCHANGED <<prArg, resolution, optsPost, env, gitRepo, prSource, prRepo, diff,
                 diffFetched, genCalls, genResult, findings, counts, apIdx, approved,
                 fbIdx, hostCalls, prompts>>

\* the reviewFile object handed to postReview
ReviewFile ==
  [repo |-> ResolveRepo(prRepo, env.githubRepo, gitRepo),
   summary |-> counts,
   findings |-> findings]

PostPrimary_ErrorReturns ==
  /\ pc = "postReview"
  /\ \E out \in PrimaryOutcomes :
       /\ hostCalls' =
            Append(hostCalls,
                   [op |-> "createReview",
                    body |-> <<FormatSummaryBody(ReviewFile, approved)>>,
                    comments |-> InlineComments(approved),
                    ok |-> out.ok, cause |-> out.cause, msg |-> out.msg])
       /\ IF out.ok THEN Exit(0, "delivered")
          ELSE IF IsFallbackError(out.msg) THEN Goto("fallbackSummary")
          ELSE Exit(0, "fatalDelivery")
  /\ UNCHANGED <<prArg, resolution, optsPost, env, gitRepo, prSource, prRepo, diff,
                 diffFetched, genCalls, genResult, findings, counts, apIdx,
                 approved, fbIdx, recordFile, recordWrites, prompts>>

\* github.ts postReview: the structured review and its catch; when postReview
\* returns, the handler prints "Done." and ends
PostPrimary ==
  /\ pc = "postReview"
  /\ \E out \in PrimaryOutcomes :
       /\ hostCalls' =
            Append(hostCalls,
                   [op |-> "createReview",
                    body |-> <<FormatSummaryBody(ReviewFile, approved)>>,
                    comments |-> InlineComments(approved),
                    ok |-> out.ok, cause |-> out.cause, msg |-> out.msg])
       /\ IF out.ok THEN Exit(0, "delivered")
          ELSE IF IsFallbackError(out.msg) THEN Goto("fallbackSummary")
          ELSE Exit(1, "fatalDelivery")
  /\ UNCHANGED <<prArg, resolution, optsPost, env, gitRepo, prSource, prRepo, diff,
                 diffFetched, genCalls, genResult, findings, counts, apIdx, approved,
                 fbIdx, recordFile, recordWrites, prompts>>

FallbackSummary_FailureIsFatal ==
  /\ pc = "fallbackSummary"
  /\ \E ok \in BOOLEAN :
       /\ hostCalls' =
            Append(hostCalls,
                   [op |-> "createComment",
                    body |-> <<FormatSummaryBody(ReviewFile, approved)>>,
                    comments |-> <<>>,
                    ok |-> ok, cause |-> "none", msg |-> {}])
       /\ IF ok THEN Goto("fallbackComments") ELSE Exit(1, "fatalDelivery")
  /\ fbIdx' = 1
  /\ UNCHANGED <<prArg, resolution, optsPost, env, gitRepo, prSource, prRepo,
                 diff, diffFetched, genCalls, genResult, findings, counts,
                 apIdx, approved, recordFile, recordWrites, prompts>>

\* github.ts postReview fallback: the flat summary comment
FallbackSummary ==
  /\ pc = "fallbackSummary"
  /\ \E ok \in BOOLEAN :
       hostCalls' =
         Append(hostCalls,
                [op |-> "createComment",
                 body |-> <<FormatSummaryBody(ReviewFile, approved)>>,
                 comments |-> <<>>,
                 ok |-> ok, cause |-> "none", msg |-> {}])
  /\ fbIdx' = 1
  /\ Goto("fallbackComments")
  /\ UNCHANGED <<prArg, resolution, optsPost, env, gitRepo, prSource, prRepo, diff,
                 diffFetched, genCalls, genResult, findings, counts, apIdx, approved,
                 recordFile, recordWrites, prompts>>

FallbackComment_StopOnFailure ==
  /\ pc = "fallbackComments"
  /\ fbIdx \in 1..Len(approved)
  /\ \E ok \in BOOLEAN :
       /\ hostCalls' =
            Append(hostCalls,
                   [op |-> "createComment",
                    body |-> <<>>,
                    comments |-> <<FormatCommentBody(approved[fbIdx])>>,
                    ok |-> ok, cause |-> "none", msg |-> {}])
       /\ IF fbIdx = Len(approved) \/ ~ok
          THEN Exit(0, "delivered") ELSE Goto("fallbackComments")
  /\ fbIdx' = fbIdx + 1
  /\ UNCHANGED <<prArg, resolution, optsPost, env, gitRepo, prSource, prRepo, diff,
                 diffFetched, genCalls, genResult, findings, counts, apIdx, approved,
                 recordFile, recordWrites, prompts>>

\* github.ts postReview fallback: one pass of the loop over approvedFindings
FallbackComment ==
  /\ pc = "fallbackComments"
  /\ fbIdx \in 1..Len(approved)
  /\ \E ok \in BOOLEAN :
       hostCalls' =
         Append(hostCalls,
                [op |-> "createComment",
                 body |-> <<>>,
                 comments |-> <<FormatCommentBody(approved[fbIdx])>>,
                 ok |-> ok, cause |-> "none", msg |-> {}])
  /\ fbIdx' = fbIdx + 1
  /\ IF fbIdx = Len(approved)
     THEN Exit(0, "delivered") ELSE Goto("fallbackComments")
  /\ UNCHANGED <<prArg, resolution, optsPost, env, gitRepo, prSource, prRepo, diff,
                 diffFetched, genCalls, genResult, findings, counts, apIdx, approved,
                 recordFile, recordWrites, prompts>>

Next ==
  \/ LoadConfig
  \/ CheckGhCli
  \/ ResolveExplicit
  \/ DetectPR
  \/ ConfirmPR
  \/ ListOpenPRs
  \/ SelectPR
  \/ GatherContext
  \/ Analyze
  \/ Report
  \/ Approve
  \/ FilterApproved
  \/ ConfirmPost
  \/ SaveReview
  \/ PostPrimary
  \/ FallbackSummary
  \/ FallbackComment

Spec == Init /\ [][Next]_vars

\* ---- the functions of the command, each taken on its own -----------------------
\* reviewWithAI's parsing, the severity sort and one pass of the approval loop
\* are applied to arguments drawn from bounded sets: one state holds the
\* argument, the next one what the function returned.

MaxSortLen == 4

\* the fields of a finding that the model carries and the type requires
FindingFields == {"id", "severity", "body"}

Restrict(f, D) == [k \in D |-> f[k]]

\* finding-shaped objects as a generator may emit them: with every field, with
\* no approved field, or with one required field left out
LooseItems ==
  {Restrict(f, D) :
     f \in [id : {1, 2}, severity : {"warning"}, body : {"b0"},
            approved : {Null, "true"}],
     D \in {D \in SUBSET (FindingFields \cup {"approved"}) :
              Cardinality(D) >= 3}}

\* what a text may carry: no JSON, a JSON object, or an array of such objects
LoosePayloads(n) ==
  IF n = 0 THEN {Garbage, ObjectValue, ArrayValue(<<>>)}
  ELSE {ArrayValue(items) : items \in [1..n -> LooseItems]}

\* what may stand before the payload of a text
Prefixes ==
  {<<>>, <<FenceToken, "\n">>, <<FenceToken, "json", "\n">>,
   <<FenceToken, "json">>, <<FenceToken, "js", "\n">>,
   <<"\n", FenceToken, "json", "\n">>, <<"x", "\n">>}

\* what may stand behind it
Suffixes ==
  {<<>>, <<"\n", FenceToken>>, <<FenceToken>>, <<"\n", FenceToken, "\n">>,
   <<"\n", FenceToken, "x">>}

\* the responses reviewWithAI is applied to
NormalizeCalls(n) ==
  {[fn |-> "normalize", resp |-> [kind |-> "text", text |-> Text(pre, v, post)]] :
     pre \in Prefixes, v \in LoosePayloads(n), post \in Suffixes}
    \cup (IF n = 0
          THEN {[fn |-> "normalize", resp |-> [kind |-> k, text |-> Bare(Garbage)]] :
                  k \in {"apiError", "noText"}}
          ELSE {})

\* arrays as the sort may meet them: element i carries id i
SortCalls(n) ==
  {[fn |-> "sort", findings |-> RawItems(n, "sequential", sevs, Null)] :
     sevs \in [1..n -> Severities]}

\* arrays as the approval loop may meet them, and what the operator answers
ApproveCalls(n) ==
  {[fn |-> "approve",
    findings |-> [i \in 1..n |->
                    [id |-> i, severity |-> sevs[i], body |-> "b0",
                     approved |-> aps[i]]],
    index |-> idx, action |-> action, text |-> text] :
     sevs \in [1..n -> Severities],
     aps \in [1..n -> {Null, "true", "false"}],
     idx \in 1..n,
     action \in {"approve", "skip", "edit"},
     text \in EditTexts}

\* ---- loadConfig ------------------------------------------------------------------

\* two of the keys loadConfig reads from process.env
ConfigKeys == {"ANTHROPIC_API_KEY", "GITHUB_REPO"}

\* a variable that is not defined
Unset == "unset"

\* dotenv's config on a file that exists: a variable of the file is written to
\* process.env when process.env has none of that name, or when override is set
DotenvConfig(penv, fileVars, override) ==
  [k \in ConfigKeys |->
     IF fileVars[k] = Unset THEN penv[k]
     ELSE IF penv[k] # Unset /\ ~override THEN penv[k]
     ELSE fileVars[k]]

\* config.ts loadConfig: process.env as the shell gave it, the project .env,
\* then the named profile; exited tells that it ended the process
LoadConfigResult(shell, project, profile) ==
  LET afterProject ==
        IF project.exists THEN DotenvConfig(shell, project.vars, FALSE)
        ELSE shell
  IN  IF profile.name = ""
      THEN [fn |-> "loadConfig", exited |-> FALSE, config |-> afterProject]
      ELSE IF ~profile.exists
      THEN [fn |-> "loadConfig", exited |-> TRUE, config |-> afterProject]
      ELSE [fn |-> "loadConfig", exited |-> FALSE,
            config |-> DotenvConfig(afterProject, profile.vars, TRUE)]

NoVars == [k \in ConfigKeys |-> Unset]

\* the shell environment, the project .env and the profile loadConfig may meet
LoadConfigCalls ==
  {[fn |-> "loadConfig", shell |-> sh, project |-> pj, profile |-> pf] :
     sh \in [ConfigKeys -> {Unset, "sh"}],
     pj \in {[exists |-> FALSE, vars |-> NoVars]}
              \cup [exists : {TRUE}, vars : [ConfigKeys -> {Unset, "pj"}]],
     pf \in {[name |-> "", exists |-> FALSE, vars |-> NoVars],
             [name |-> "work", exists |-> FALSE, vars |-> NoVars]}
              \cup [name : {"work"}, exists : {TRUE},
                    vars : [ConfigKeys -> {Unset, "pf"}]]}

\* ---- the size cap of the diff ------------------------------------------------------

\* review.ts: const maxDiffChars = 100_000
maxDiffChars == 100000

\* review.ts: the text appended to a truncated diff
TruncationMarker == "\n\n... (diff truncated due to size)"

\* a text made of the first chars characters of what getPRDiff returned,
\* followed by the texts in tail
DiffText(chars, tail) == [chars |-> chars, tail |-> tail]

\* diff.length, of the diff as fetched
DiffLength(d) == d.chars

\* diff.substring(0, k), of the diff as fetched
DiffSubstring(d, k) == DiffText(IF d.chars < k THEN d.chars ELSE k, <<>>)

TruncateDiff_AtCap(d) ==
  IF DiffLength(d) >= maxDiffChars
  THEN DiffText(DiffSubstring(d, maxDiffChars).chars, <<TruncationMarker>>)
  ELSE d

\* review.ts: truncatedDiff
TruncateDiff(d) ==
  IF DiffLength(d) > maxDiffChars
  THEN DiffText(DiffSubstring(d, maxDiffChars).chars, <<TruncationMarker>>)
  ELSE d

\* lengths of the diffs getPRDiff may return
DiffLengths == {0, 1, 2, 99999, 100000, 100001, 100002, 250000}

TruncateCalls == {[fn |-> "truncate", diff |-> DiffText(n, <<>>)] : n \in DiffLengths}

\* ---- the summary counts --------------------------------------------------------------

\* a severity outside the three the type names; reviewWithAI checks no field
OtherSeverity == "info"

\* arrays of findings as reviewWithAI may return them
SummaryCalls(n) ==
  {[fn |-> "summary", findings |-> RawItems(n, "sequential", sevs, Null)] :
     sevs \in [1..n -> Severities \cup {OtherSeverity}]}

\* ---- the MCP tool github_post_review ---------------------------------------------------

\* github.ts postReview as the tool calls it: it returns (after the primary
\* call or after the fallback) or ends the process with process.exit(1)
PostReviewEnd(out) ==
  IF out.ok \/ IsFallbackError(out.msg) THEN "returned" ELSE "exited"

\* what postReview got onto the pull request: the review, or the flat comments
\* of the fallback that went through
PostedBy(out, flat) ==
  IF out.ok THEN {"review"}
  ELSE IF IsFallbackError(out.msg)
  THEN {i \in DOMAIN flat : flat[i]}
  ELSE {}

\* server.ts github_post_review: checkGhCli and postReview run inside try, but
\* process.exit is no exception, so when either calls it the server process
\* ends and no result is returned; nothing else in the try block throws on
\* arguments that passed the schema, so the catch branch gives no result here
McpPostReviewResult(ghOk, out, flat) ==
  IF ~ghOk
  THEN [fn |-> "mcpPost", alive |-> FALSE, result |-> "none",
        isError |-> FALSE, posted |-> {}]
  ELSE IF PostReviewEnd(out) = "exited"
  THEN [fn |-> "mcpPost", alive |-> FALSE, result |-> "none",
        isError |-> FALSE, posted |-> {}]
  ELSE [fn |-> "mcpPost", alive |-> TRUE, result |-> "success",
        isError |-> FALSE, posted |-> PostedBy(out, flat)]

\* requests to the tool with n findings: whether gh auth status passes, how the
\* primary call ends, and which of the 1 + n flat comments would go through
McpCalls(n) ==
  {[fn |-> "mcpPost", ghOk |-> g, primary |-> out, flat |-> fl] :
     g \in BOOLEAN, out \in PrimaryOutcomes, fl \in [1..(n + 1) -> BOOLEAN]}

FnInit ==
  /\ pc = "call"
  /\ prArg = "none"
  /\ optsPost = FALSE
  /\ env = [anthropicApiKey |-> "", githubRepo |-> ""]
  /\ gitRepo = ""
  /\ NothingDoneYet
  /\ \/ \E n \in 0..MaxFindings : fnIn \in NormalizeCalls(n)
     \/ \E n \in 0..MaxSortLen : fnIn \in SortCalls(n)
     \/ \E n \in 1..MaxFindings : fnIn \in ApproveCalls(n)
     \/ fnIn \in LoadConfigCalls
     \/ fnIn \in TruncateCalls
     \/ \E n \in 1..MaxFindings : fnIn \in SummaryCalls(n)
     \/ \E n \in 1..MaxFindings : fnIn \in McpCalls(n)
  /\ fnOut = NoCall

Return(result) ==
  /\ pc' = "returned"
  /\ fnOut' = result
  /\ UNCHANGED <<prArg, resolution, optsPost, env, gitRepo, prSource, prRepo, diff,
                 diffFetched, genCalls, genResult, findings, counts, apIdx, approved,
                 fbIdx, recordFile, recordWrites, hostCalls, prompts,
                 phaseLog, exitCode, outcome, fnIn>>

\* anthropic.ts reviewWithAI, from the response on: it throws or returns the
\* normalized findings
CallNormalize ==
  /\ pc = "call"
  /\ fnIn.fn = "normalize"
  /\ Return([fn |-> "normalize",
             threw |-> ReviewThrows(fnIn.resp),
             findings |-> IF ReviewThrows(fnIn.resp) THEN <<>>
                          ELSE Normalize(fnIn.resp)])

\* review.ts: findings.sort(...)
CallSort ==
  /\ pc = "call"
  /\ fnIn.fn = "sort"
  /\ Return([fn |-> "sort", findings |-> SortBySeverity(fnIn.findings)])

\* review.ts interactiveApproval: one pass of its loop
CallApprove ==
  /\ pc = "call"
  /\ fnIn.fn = "approve"
  /\ Return([fn |-> "approve",
             findings |-> ApproveFinding(fnIn.findings, fnIn.index,
                                         fnIn.action, fnIn.text)])

\* config.ts loadConfig
CallLoadConfig ==
  /\ pc = "call"
  /\ fnIn.fn = "loadConfig"
  /\ Return(LoadConfigResult(fnIn.shell, fnIn.project, fnIn.profile))

\* review.ts: the diff handed to reviewWithAI
CallTruncate ==
  /\ pc = "call"
  /\ fnIn.fn = "truncate"
  /\ Return([fn |-> "truncate", diff |-> TruncateDiff(fnIn.diff)])

\* review.ts: the counts of the summary line and of the record
CallSummary ==
  /\ pc = "call"
  /\ fnIn.fn = "summary"
  /\ Return([fn |-> "summary", counts |-> SummaryCounts(fnIn.findings)])

\* server.ts: the handler of github_post_review
CallMcpPostReview ==
  /\ pc = "call"
  /\ fnIn.fn = "mcpPost"
  /\ Return(McpPostReviewResult(fnIn.ghOk, fnIn.primary, fnIn.flat))

FnNext ==
  \/ CallNormalize
  \/ CallSort
  \/ CallApprove
  \/ CallLoadConfig
  \/ CallTruncate
  \/ CallSummary
  \/ CallMcpPostReview

SpecFn == FnInit /\ [][FnNext]_vars

\* ---- helpers of the properties ------------------------------------------------

Range(s) == {s[i] : i \in DOMAIN s}

RECURSIVE KeepApproved(_)
\* the findings the operator approved or edited, in the order of the findings
KeepApproved(s) ==
  IF s = <<>> THEN <<>>
  ELSE IF Head(s).approved = "true"
       THEN <<Head(s)>> \o KeepApproved(Tail(s))
       ELSE KeepApproved(Tail(s))

\* what the host sees of a finding in a comment
CommentOf(f) == [severity |-> f.severity, body |-> f.body]

\* what the host sees of a finding in a row of the summary table
RowOf(f) == [id |-> f.id, severity |-> f.severity]

\* the approval session has visited every finding
ApprovalComplete == Len(findings) > 0 /\ apIdx > Len(findings)

ApprovalPrompts == {"selectAction", "inputBody", "confirmPost"}

PrimaryFailed == hostCalls # <<>> /\ ~hostCalls[1].ok

FlatAttempted == \E i \in DOMAIN hostCalls : hostCalls[i].op = "createComment"

PhaseRank ==
  [ResolvingPR |-> 1, GatheringContext |-> 2, Analyzing |-> 3, Reporting |-> 4,
   ApprovalPending |-> 5, Posting |-> 6, Done |-> 7, Fatal |-> 8]

\* the phase each position of the handler belongs to
PhaseOfPc ==
  [checkGh |-> "ResolvingPR", resolveArg |-> "ResolvingPR",
   confirmPR |-> "ResolvingPR", listPRs |-> "ResolvingPR",
   selectPR |-> "ResolvingPR", gather |-> "GatheringContext",
   analyze |-> "Analyzing", report |-> "Reporting",
   approve |-> "ApprovalPending", approvalDone |-> "ApprovalPending",
   confirmPost |-> "Posting", saveReview |-> "Posting",
   postReview |-> "Posting", fallbackSummary |-> "Posting",
   fallbackComments |-> "Posting"]

\* ---- properties ------------------------------------------------------------------

\* C1: the review record is on disk, holding the review being delivered,
\* whenever a host-mutating call has been attempted; once written it is never
\* removed or changed; it is there when delivery ends the run with exit 1.
C1_RecordBeforeDelivery ==
  /\ [](hostCalls # <<>> => recordFile = <<ReviewFile>>)
  /\ [][recordFile # <<>> => recordFile' = recordFile]_vars
  /\ [](outcome = "fatalDelivery" => (exitCode = 1 /\ recordFile # <<>>))

C1_Witness ==
  /\ outcome = "fatalDelivery"
  /\ exitCode = 1
  /\ Len(hostCalls) = 1
  /\ recordFile # <<>>

\* C2: when the structured review failed with an anchor error and postReview
\* has ended, the calls after it are exactly one flat summary comment followed
\* by one flat comment per approved finding, in the order of the approved
\* findings, whichever of these attempts failed.
C2_FallbackAttemptsAll ==
  (pc = "exited" /\ PrimaryFailed /\ hostCalls[1].cause = "anchor") =>
    LET ap == KeepApproved(findings) IN
      /\ Len(hostCalls) = 2 + Len(ap)
      /\ hostCalls[2].op = "createComment"
      /\ Len(hostCalls[2].body) = 1
      /\ hostCalls[2].comments = <<>>
      /\ \A i \in 1..Len(ap) :
           /\ hostCalls[2 + i].op = "createComment"
           /\ hostCalls[2 + i].body = <<>>
           /\ hostCalls[2 + i].comments = <<CommentOf(ap[i])>>

C2_Witness ==
  /\ pc = "exited"
  /\ PrimaryFailed
  /\ hostCalls[1].cause = "anchor"
  /\ Len(hostCalls) = 4
  /\ ~hostCalls[2].ok
  /\ ~hostCalls[3].ok
  /\ hostCalls[4].ok
  /\ hostCalls[3].comments # hostCalls[4].comments

\* C3: a failure of the structured review that anchors outside the diff did
\* not cause is fatal at once: no flat comment is attempted and the run exits
\* with status 1.
C3_NonAnchorFailureIsFatal ==
  (PrimaryFailed /\ hostCalls[1].cause # "anchor") =>
    (Len(hostCalls) = 1 /\ ~FlatAttempted /\ pc = "exited" /\ exitCode = 1)

\* C4 as stated: postReview ends the run fatally only when the structured
\* review and the flat-comment fallback have both been tried and have failed.
C4_FatalOnlyWhenBothExhausted ==
  outcome = "fatalDelivery" => (PrimaryFailed /\ FlatAttempted)

\* C4 as amended: postReview ends the run fatally only when the structured
\* review failed with a message that carries neither fallback token, and then
\* no flat comment has been attempted; once the fallback is engaged the run
\* never ends fatally.
C4_FatalOnlyOnUnmatchedPrimaryFailure ==
  /\ outcome = "fatalDelivery" =>
       /\ Len(hostCalls) = 1
       /\ hostCalls[1].op = "createReview"
       /\ ~hostCalls[1].ok
       /\ ThreadToken \notin hostCalls[1].msg
       /\ ValidationToken \notin hostCalls[1].msg
  /\ (FlatAttempted \/ pc \in {"fallbackSummary", "fallbackComments"}) =>
       (outcome # "fatalDelivery" /\ exitCode # 1)

C4_Witness ==
  /\ outcome = "fatalDelivery"
  /\ hostCalls[1].cause = "other"
  /\ Len(KeepApproved(findings)) = 2

\* C5: once the approval session is over with no finding approved, the run has
\* ended with exit 0 and the nothing-approved outcome; the confirmation prompt
\* was not reached, no record was written and no host-mutating call was made.
C5_NothingApproved ==
  (ApprovalComplete /\ pc # "approvalDone" /\ KeepApproved(findings) = <<>>) =>
    /\ pc = "exited"
    /\ exitCode = 0
    /\ outcome = "nothingApproved"
    /\ "Posting" \notin Range(phaseLog)
    /\ "confirmPost" \notin Range(prompts)
    /\ recordWrites = 0
    /\ recordFile = <<>>
    /\ hostCalls = <<>>

C5_Witness ==
  /\ outcome = "nothingApproved"
  /\ Len(findings) = 2
  /\ \A i \in 1..Len(findings) : findings[i].approved = "false"

\* C6: every summary sent to the host lists exactly the approved findings, the
\* structured review carries exactly one inline comment per approved finding,
\* in their order and with their current body, every flat finding comment is
\* the comment of an approved finding, and a finished fallback has sent exactly
\* the approved findings.
C6_OnlyApprovedDelivered ==
  LET ap == KeepApproved(findings)
      flat == SelectSeq(hostCalls,
                        LAMBDA c : c.op = "createComment" /\ c.body = <<>>)
  IN  /\ \A i \in DOMAIN hostCalls :
           LET c == hostCalls[i] IN
             /\ c.body # <<>> =>
                  c.body[1].rows = [j \in 1..Len(ap) |-> RowOf(ap[j])]
             /\ c.op = "createReview" =>
                  c.comments = [j \in 1..Len(ap) |-> CommentOf(ap[j])]
      /\ \A k \in 1..Len(flat) :
           /\ k <= Len(ap)
           /\ flat[k].comments = <<CommentOf(ap[k])>>
      /\ (pc = "exited" /\ FlatAttempted) => Len(flat) = Len(ap)

C6_Witness ==
  /\ pc = "exited"
  /\ Len(hostCalls) = 3
  /\ Len(findings) = 2
  /\ findings[1].approved = "false"
  /\ findings[2].approved = "true"
  /\ findings[2].body = "e1"

\* C7: when the fetched diff is blank, the run has ended with exit 0 and the
\* nothing-to-review outcome, and reviewWithAI has not been called.
C7_EmptyDiffSkipsGeneration ==
  (diffFetched /\ \A i \in DOMAIN diff : diff[i] \in WhiteSpace) =>
    /\ pc = "exited"
    /\ exitCode = 0
    /\ outcome = "nothingToReview"
    /\ genCalls = 0

C7_Witness ==
  /\ outcome = "nothingToReview"
  /\ diffFetched
  /\ Len(diff) = 2
  /\ genCalls = 0

\* C8: when reviewWithAI has returned an empty array, the run has ended with
\* exit 0 and the no-issues outcome, with or without --post: the approval
\* session was not entered, none of its prompts was shown, no record was
\* written and no host-mutating call was made.
C8_ZeroFindingsSkipsApproval ==
  (genCalls > 0 /\ pc # "analyze" /\ outcome # "fatalGeneration"
     /\ findings = <<>>) =>
    /\ pc = "exited"
    /\ exitCode = 0
    /\ outcome = "noIssues"
    /\ Range(phaseLog) \cap {"Reporting", "ApprovalPending", "Posting"} = {}
    /\ Range(prompts) \cap ApprovalPrompts = {}
    /\ recordWrites = 0
    /\ recordFile = <<>>
    /\ hostCalls = <<>>

C8_Witness ==
  /\ outcome = "noIssues"
  /\ optsPost
  /\ genCalls = 1

\* C9: the phases are entered in the fixed order, each at most once and each
\* right after its predecessor, except for a step to Done or to a fatal exit,
\* after which nothing follows; the handler is always in the phase entered
\* last; the diff is fetched before the generation call, the generation call
\* is made before the approval session, and the approval session is over
\* before the first host-mutating call.
C9_PhaseOrder ==
  /\ \A i \in 1..(Len(phaseLog) - 1) :
       /\ phaseLog[i] \notin {"Done", "Fatal"}
       /\ \/ phaseLog[i + 1] \in {"Done", "Fatal"}
          \/ PhaseRank[phaseLog[i + 1]] = PhaseRank[phaseLog[i]] + 1
  /\ phaseLog # <<>> => phaseLog[1] \in {"ResolvingPR", "Fatal"}
  /\ pc = "start" <=> phaseLog = <<>>
  /\ pc = "exited" <=>
       (phaseLog # <<>> /\ phaseLog[Len(phaseLog)] \in {"Done", "Fatal"})
  /\ pc \notin {"start", "exited"} => phaseLog[Len(phaseLog)] = PhaseOfPc[pc]
  /\ genCalls > 0 => diffFetched
  /\ (apIdx > 0 \/ Range(prompts) \cap ApprovalPrompts # {}) => genCalls > 0
  /\ (hostCalls # <<>> \/ recordWrites > 0) => ApprovalComplete

C9_Witness ==
  phaseLog = <<"ResolvingPR", "GatheringContext", "Analyzing", "Reporting",
               "ApprovalPending", "Posting", "Done">>

\* C10: without --post, once the findings are reported the run has ended with
\* exit 0; the approval session is never entered, none of its prompts is
\* shown, no record is written and no host-mutating call is made.
C10_ReportOnlyWithoutPost ==
  ~optsPost =>
    /\ ("Reporting" \in Range(phaseLog) /\ pc # "report") =>
         (pc = "exited" /\ exitCode = 0 /\ outcome = "reportOnly")
    /\ Range(phaseLog) \cap {"ApprovalPending", "Posting"} = {}
    /\ Range(prompts) \cap ApprovalPrompts = {}
    /\ apIdx = 0
    /\ recordWrites = 0
    /\ recordFile = <<>>
    /\ hostCalls = <<>>

C10_Witness ==
  /\ ~optsPost
  /\ outcome = "reportOnly"
  /\ exitCode = 0
  /\ Len(findings) = 2

\* ---- reviewWithAI's parsing --------------------------------------------------

\* reviewWithAI has returned or thrown on the response in fnIn
Normalized == pc = "returned" /\ fnIn.fn = "normalize"

HasText(resp) == resp.kind = "text"

\* some element of the array lacks a required field
HasMalformedElement(value) ==
  /\ value.type = "array"
  /\ \E i \in 1..Len(value.items) : ~(FindingFields \subseteq DOMAIN value.items[i])

\* the response is no JSON, is JSON but no array, or is an array with a
\* malformed element
MustBeRejected(resp) ==
  /\ HasText(resp)
  /\ \/ resp.text.payload.type \in {"garbage", "object"}
     \/ HasMalformedElement(resp.text.payload)

\* C11: the parsing of reviewWithAI rejects with an error, and returns no
\* findings, every response that is invalid JSON, is JSON but not an array, or
\* is an array in which some element lacks a required field: one malformed
\* element rejects the whole batch.
C11_RejectsMalformed ==
  (Normalized /\ MustBeRejected(fnIn.resp))
    => (fnOut.threw /\ fnOut.findings = <<>>)

\* an array of finding-shaped objects that all carry every required field
IsValidArray(value) ==
  /\ value.type = "array"
  /\ ~HasMalformedElement(value)

\* the same inside a code fence without a language tag
FencedPlain(value) == Text(<<FenceToken, "\n">>, value, <<"\n", FenceToken>>)

\* the text is the serialization of a valid array: bare, or in a code fence
\* with or without the json tag
IsSerialization(t) ==
  /\ IsValidArray(t.payload)
  /\ t \in {Bare(t.payload), FencedPlain(t.payload), FencedJson(t.payload)}

\* out is in with approved set to null and every other field as it was
SameButApproved(in, out) ==
  /\ DOMAIN out = DOMAIN in \cup {"approved"}
  /\ out.approved = Null
  /\ \A k \in DOMAIN in \ {"approved"} : out[k] = in[k]

\* C12: serializing an array of valid finding-shaped objects to JSON text, bare
\* or inside a code fence with or without the json tag, and normalizing it
\* gives an array of the same length and order whose elements equal the
\* originals in every field except approved, which is null in every element
\* whatever the input carried.
C12_RoundTrip ==
  (Normalized /\ HasText(fnIn.resp) /\ IsSerialization(fnIn.resp.text))
    => LET in == fnIn.resp.text.payload.items
           out == fnOut.findings
       IN  /\ ~fnOut.threw
           /\ Len(out) = Len(in)
           /\ \A i \in 1..Len(in) : SameButApproved(in[i], out[i])

C12_Witness ==
  /\ Normalized
  /\ HasText(fnIn.resp)
  /\ IsSerialization(fnIn.resp.text)
  /\ fnIn.resp.text.pre = <<FenceToken, "json", "\n">>
  /\ Len(fnOut.findings) = MaxFindings
  /\ "approved" \in DOMAIN fnIn.resp.text.payload.items[1]
  /\ fnIn.resp.text.payload.items[1].approved = "true"
  /\ "approved" \notin DOMAIN fnIn.resp.text.payload.items[2]
  /\ fnIn.resp.text.payload.items[1].id # fnIn.resp.text.payload.items[2].id
  /\ \A i \in 1..MaxFindings : fnOut.findings[i].approved = Null

\* ---- the severity sort ---------------------------------------------------------

\* findings.sort has returned on the array in fnIn
Sorted == pc = "returned" /\ fnIn.fn = "sort"

\* where a severity stands in a report: critical, then warning, then suggestion
ReportPlace(f) ==
  CASE f.severity = "critical" -> 1
    [] f.severity = "warning" -> 2
    [] f.severity = "suggestion" -> 3

\* C13: the sort applied before reporting returns a permutation of its input in
\* which every critical finding stands before every warning and every warning
\* before every suggestion, and findings of equal severity keep the order they
\* had in the input (element i of the input carries id i).
C13_StableSeveritySort ==
  Sorted =>
    LET in == fnIn.findings
        out == fnOut.findings
    IN  /\ Len(out) = Len(in)
        /\ \A i \in 1..Len(in) : \E j \in 1..Len(out) : out[j] = in[i]
        /\ \A i, j \in 1..Len(out) :
             i < j => /\ ReportPlace(out[i]) <= ReportPlace(out[j])
                      /\ out[i].severity = out[j].severity => out[i].id < out[j].id

C13_Witness ==
  /\ Sorted
  /\ Len(fnIn.findings) = 4
  /\ [i \in 1..4 |-> fnIn.findings[i].severity]
       = <<"suggestion", "critical", "suggestion", "critical">>
  /\ [i \in 1..4 |-> fnOut.findings[i].id] = <<2, 4, 1, 3>>

\* ---- the approval session ------------------------------------------------------

\* one pass of the approval loop has run on the array in fnIn
ActionApplied == pc = "returned" /\ fnIn.fn = "approve"

\* C14: in the approval session, approve sets the finding's approved to true
\* and leaves its body; skip sets approved to false and leaves its body; edit
\* replaces the body with the operator's text (the current body when the text
\* is blank) and sets approved to true; no action changes any field of any
\* other finding.
C14_ApprovalActions ==
  ActionApplied =>
    LET in == fnIn.findings
        out == fnOut.findings
        f == in[fnIn.index]
        g == out[fnIn.index]
    IN  /\ Len(out) = Len(in)
        /\ \A j \in 1..Len(in) : j # fnIn.index => out[j] = in[j]
        /\ g.id = f.id
        /\ g.severity = f.severity
        /\ fnIn.action = "approve" => (g.approved = "true" /\ g.body = f.body)
        /\ fnIn.action = "skip" => (g.approved = "false" /\ g.body = f.body)
        /\ fnIn.action = "edit" =>
             /\ g.approved = "true"
             /\ fnIn.text # "" => g.body = fnIn.text
             /\ fnIn.text = "" => g.body = f.body

C14_Witness ==
  /\ ActionApplied
  /\ Len(fnIn.findings) = 2
  /\ fnIn.index = 1
  /\ fnIn.action = "edit"
  /\ fnIn.text = ""
  /\ fnIn.findings[1].approved = "false"
  /\ fnOut.findings[1].approved = "true"
  /\ fnOut.findings[1].body = "b0"
  /\ fnOut.findings[2] = fnIn.findings[2]

\* ---- what may change once the findings exist -----------------------------------

\* positions of the handler behind the analysis
AfterAnalysis ==
  pc \in {"report", "approve", "approvalDone", "confirmPost", "saveReview",
          "postReview", "fallbackSummary", "fallbackComments"}

\* a finding without its approved field
Content(f) == [id |-> f.id, severity |-> f.severity, body |-> f.body]

Contents(fs) == [i \in 1..Len(fs) |-> Content(fs[i])]

CountIn(c, s) == Cardinality({i \in 1..Len(s) : s[i] = c})

\* s and t hold the same elements the same number of times
SameElements(s, t) ==
  /\ Len(s) = Len(t)
  /\ \A c \in Range(s) \cup Range(t) : CountIn(c, s) = CountIn(c, t)

\* C15 as stated: once the analysis has produced the findings, no step of any
\* phase changes a field of the review or of a finding other than a finding's
\* approved field (the sort may reorder the findings).
C15_OnlyApprovedChanges ==
  [][AfterAnalysis =>
       /\ SameElements(Contents(findings'), Contents(findings))
       /\ prRepo' = prRepo
       /\ recordFile # <<>> => recordFile' = recordFile]_vars

\* the last prompt answered is the one asking for a new body
BodyWasAsked(ps) == ps # <<>> /\ ps[Len(ps)] = "inputBody"

\* C15: once the analysis has produced the findings, the sort only reorders
\* them, and the only fields that any later step changes are, in the approval
\* session and on the finding the session is at, its approved field and, when
\* the operator edits it (the body prompt was answered), its body, which comes
\* with approved true; id and severity of a finding, the repository of the
\* review, the summary counts once reported and the written record never
\* change.
C15_OnlyApprovedAndEditedBodyChange ==
  [][AfterAnalysis =>
       /\ Len(findings') = Len(findings)
       /\ prRepo' = prRepo
       /\ recordFile # <<>> => recordFile' = recordFile
       /\ pc # "report" => counts' = counts
       /\ pc = "report" =>
            /\ SameElements(findings', findings)
            /\ counts'.total = Len(findings)
       /\ pc # "report" =>
            \A i \in 1..Len(findings) :
              /\ findings'[i].id = findings[i].id
              /\ findings'[i].severity = findings[i].severity
              /\ findings'[i] # findings[i] => (pc = "approve" /\ i = apIdx)
              /\ findings'[i].body # findings[i].body =>
                   /\ findings'[i].approved = "true"
                   /\ BodyWasAsked(prompts')]_vars

C15_Witness ==
  /\ pc = "approvalDone"
  /\ Len(findings) = 2
  /\ findings[1].body = "e1"
  /\ findings[1].approved = "true"
  /\ findings[2].body = "b0"
  /\ findings[2].approved = "false"

\* ---- the generation call -------------------------------------------------------

\* C16: the generation call is made at most once in an invocation and is never
\* retried; when it fails or its output cannot be normalized (reviewWithAI
\* threw), the invocation has ended with exit status 1, nothing was taken as a
\* finding, no record was written and no host-mutating call was made.
C16_GenerationOnceAndFatal ==
  /\ genCalls <= 1
  /\ (genCalls = 0) = (genResult = "none")
  /\ genResult = "threw" =>
       /\ pc = "exited"
       /\ exitCode = 1
       /\ findings = <<>>
       /\ recordFile = <<>>
       /\ recordWrites = 0
       /\ hostCalls = <<>>

C16_Witness ==
  /\ genResult = "threw"
  /\ genCalls = 1
  /\ optsPost
  /\ exitCode = 1

\* ---- configuration errors ------------------------------------------------------

\* C17: every configuration error of review (no generation API key, no
\* repository identifier to be determined) ends the invocation before any
\* network call: no host query and no generation call has been made.
C17_ConfigErrorsBeforeNetwork ==
  outcome = "fatalConfig" =>
    /\ prSource = "none"
    /\ ~diffFetched
    /\ genCalls = 0

\* ---- where the host is changed -------------------------------------------------

\* the phase the handler is in: the last phase entered before it ended
CurrentPhase ==
  IF pc = "exited"
  THEN (IF Len(phaseLog) > 1 THEN phaseLog[Len(phaseLog) - 1] ELSE "none")
  ELSE (IF phaseLog = <<>> THEN "none" ELSE phaseLog[Len(phaseLog)])

\* C18: a host-mutating call is made in no phase other than Posting: as long as
\* Posting has not been entered none has been attempted, and whenever one has
\* been attempted the handler is in Posting; the approval session contacts
\* neither the generator (the one generation call was made before it) nor the
\* host.
C18_MutationsOnlyInPosting ==
  /\ "Posting" \notin Range(phaseLog) => hostCalls = <<>>
  /\ hostCalls # <<>> => CurrentPhase = "Posting"
  /\ CurrentPhase = "ApprovalPending" => (hostCalls = <<>> /\ genCalls = 1)
  /\ "ApprovalPending" \in Range(phaseLog) => genCalls = 1

C18_Witness ==
  /\ pc = "fallbackComments"
  /\ Len(hostCalls) = 2
  /\ CurrentPhase = "Posting"
  /\ \E i \in 1..Len(phaseLog) : phaseLog[i] = "ApprovalPending"

\* ---- exit status -----------------------------------------------------------------

SuccessOutcomes ==
  {"nothingToReview", "noIssues", "reportOnly", "nothingApproved", "delivered"}

FatalOutcomes ==
  {"fatalResolve", "fatalConfig", "fatalGeneration", "fatalDelivery"}

\* the primary call failed with an error that does not lead to the fallback
PrimaryFailedFatally ==
  /\ PrimaryFailed
  /\ hostCalls[1].msg \cap {ThreadToken, ValidationToken} = {}

\* C19: the invocation ends with exit status 0 in every successful terminal
\* state (nothing to review, no issues found, report only, nothing approved,
\* delivered) and with 1 on every fatal error (resolution, configuration,
\* generation, delivery); the terminal states are told both by the outcome the
\* handler ended with and by what the run shows.
C19_ExitCodes ==
  pc = "exited" =>
    /\ exitCode \in {0, 1}
    /\ outcome \in SuccessOutcomes => exitCode = 0
    /\ outcome \in FatalOutcomes => exitCode = 1
    \* resolution and configuration
    /\ prArg = "nodigits" => exitCode = 1
    /\ env.anthropicApiKey = "" => exitCode = 1
    /\ (ApprovalComplete /\ approved # <<>> /\ hostCalls = <<>>
          /\ prompts[Len(prompts)] = "confirmPost" /\ recordWrites = 0
          /\ outcome # "cancelled"
          /\ ResolveRepo(prRepo, env.githubRepo, gitRepo) = "")
         => exitCode = 1
    \* generation
    /\ genResult = "threw" => exitCode = 1
    \* delivery
    /\ PrimaryFailedFatally => exitCode = 1
    \* nothing to review, no issues, report only, nothing approved, delivered
    /\ (diffFetched /\ DiffIsEmpty(diff)) => exitCode = 0
    /\ (genResult = "returned" /\ findings = <<>>) => exitCode = 0
    /\ (genResult = "returned" /\ findings # <<>> /\ ~optsPost) => exitCode = 0
    /\ (ApprovalComplete /\ \A i \in 1..Len(findings) : findings[i].approved # "true")
         => exitCode = 0
    /\ (hostCalls # <<>> /\ hostCalls[1].ok) => exitCode = 0

C19_Witness ==
  /\ pc = "exited"
  /\ PrimaryFailedFatally
  /\ outcome = "fatalDelivery"
  /\ exitCode = 1

\* ---- the record after a delivery -------------------------------------------------

\* the primary call was made with --post and succeeded
DeliveredByPrimary ==
  /\ pc = "exited"
  /\ optsPost
  /\ hostCalls # <<>>
  /\ hostCalls[1].ok

\* C20: with --post, an approved finding and a successful primary delivery, the
\* run exits 0 and the record on disk holds every delivered finding with
\* approved true and a posted flag that tells of the delivery.
C20_RecordReflectsDelivery ==
  DeliveredByPrimary =>
    /\ exitCode = 0
    /\ recordFile # <<>>
    /\ \A i \in 1..Len(approved) :
         \E j \in 1..Len(recordFile[1].findings) :
           LET f == recordFile[1].findings[j]
           IN  /\ f.id = approved[i].id
               /\ f.body = approved[i].body
               /\ f.approved = "true"
               /\ "posted" \in DOMAIN f
               /\ f.posted = TRUE

\* ---- configuration precedence ----------------------------------------------------

\* loadConfig has returned a configuration for the environment in fnIn
ConfigLoaded == pc = "returned" /\ fnIn.fn = "loadConfig" /\ ~fnOut.exited

\* the profile selected with --env defines k
ProfileSets(k) == fnIn.profile.name # "" /\ fnIn.profile.vars[k] # Unset

ProjectSets(k) == fnIn.project.exists /\ fnIn.project.vars[k] # Unset

\* C21: in the configuration loadConfig returns, for every key, a value set in
\* the shell environment wins over the project .env and over the profile
\* selected with --env, and a profile value wins over a project .env value.
C21_ConfigPrecedence ==
  ConfigLoaded =>
    \A k \in ConfigKeys :
      /\ fnIn.shell[k] # Unset => fnOut.config[k] = fnIn.shell[k]
      /\ (fnIn.shell[k] = Unset /\ ProfileSets(k))
           => fnOut.config[k] = fnIn.profile.vars[k]
      /\ (fnIn.shell[k] = Unset /\ ~ProfileSets(k) /\ ProjectSets(k))
           => fnOut.config[k] = fnIn.project.vars[k]

\* ---- the ids of the findings -------------------------------------------------------

\* the ids the findings carry
IdsOf(fs) == {fs[i].id : i \in 1..Len(fs)}

\* C22: once reviewWithAI has returned, the ids of the findings are unique and
\* are exactly 1..n for a review of n findings, whatever ids the generator
\* emitted.
C22_IdsAreOneToN ==
  genResult = "returned" =>
    /\ IdsOf(findings) = 1..Len(findings)
    /\ \A i, j \in 1..Len(findings) : i # j => findings[i].id # findings[j].id

\* ---- the order of the findings -----------------------------------------------------

\* the findings have been sorted and printed
Surfaced == "Reporting" \in Range(phaseLog) /\ pc # "report"

\* C23: the findings are surfaced ordered by severity rank and, among findings
\* of equal severity, by ascending id, whatever order the generator emitted
\* them in.
C23_OrderedBySeverityThenId ==
  Surfaced =>
    \A i, j \in 1..Len(findings) :
      i < j => /\ ReportPlace(findings[i]) <= ReportPlace(findings[j])
               /\ findings[i].severity = findings[j].severity
                    => findings[i].id <= findings[j].id

\* ---- resolving the pull request ------------------------------------------------------

\* what resolvePR met last
LastMet == IF resolution = <<>> THEN "nothing" ELSE resolution[Len(resolution)]

\* C24: with no PR reference given, the auto-detected PR is used only when the
\* detection succeeded and the operator confirmed it; when the detection
\* failed or the operator declined, the open PRs are listed and only a PR the
\* operator selected is used; when that list is empty the run has ended with
\* exit status 1 and neither a diff was fetched nor the generation call made.
C24_ResolveWithoutReference ==
  prArg = "none" =>
    /\ prSource # "explicit"
    /\ prSource = "detected" => resolution = <<"detected", "confirmed">>
    /\ prSource = "selected" =>
         resolution \in {<<"notDetected", "listed", "selected">>,
                         <<"detected", "declined", "listed", "selected">>}
    /\ LastMet \in {"notDetected", "declined"} =>
         (pc = "listPRs" /\ prSource = "none")
    /\ LastMet = "listEmpty" =>
         /\ pc = "exited"
         /\ exitCode = 1
         /\ prSource = "none"
         /\ ~diffFetched
         /\ genCalls = 0
    /\ (diffFetched \/ genCalls > 0) => prSource \in {"detected", "selected"}

C24_Witness ==
  /\ prArg = "none"
  /\ resolution = <<"detected", "declined", "listed", "selected">>
  /\ prSource = "selected"
  /\ genCalls = 1

\* ---- the diff handed to the generator ------------------------------------------------

DiffTruncated == pc = "returned" /\ fnIn.fn = "truncate"

\* C25: the diff passed to the generation call equals the fetched diff when
\* that is at most 100,000 characters long; when it is longer, it is the first
\* 100,000 characters of the fetched diff followed by the truncation marker;
\* so nothing is cut without the marker and the marker never comes without a
\* cut.
C25_TruncationAtCap ==
  DiffTruncated =>
    /\ fnIn.diff.chars <= 100000 => fnOut.diff = fnIn.diff
    /\ fnIn.diff.chars > 100000 =>
         /\ fnOut.diff.chars = 100000
         /\ fnOut.diff.tail = <<TruncationMarker>>
    /\ (fnOut.diff.chars < fnIn.diff.chars) = (fnOut.diff.tail # <<>>)

C25_Witness ==
  /\ DiffTruncated
  /\ fnIn.diff.chars = 100001
  /\ fnOut.diff = DiffText(100000, <<TruncationMarker>>)

\* ---- the end of the fallback ---------------------------------------------------------

\* the primary call failed with an error that leads to the fallback
FallbackEngaged ==
  /\ PrimaryFailed
  /\ hostCalls[1].msg \cap {ThreadToken, ValidationToken} # {}

\* C26: once the fallback is engaged, postReview returns normally whatever
\* flat comments fail: the run never ends with status 1, every pass of the
\* fallback makes one more call, and the run ends, after the summary and one
\* comment for each approved finding were attempted, with the final success
\* line and exit status 0.
C26_FallbackAlwaysReturns ==
  FallbackEngaged =>
    /\ pc \in {"fallbackSummary", "fallbackComments", "exited"}
    /\ exitCode # 1
    /\ pc = "fallbackSummary" => Len(hostCalls) = 1
    /\ pc = "fallbackComments" =>
         (fbIdx \in 1..Len(approved) /\ Len(hostCalls) = 1 + fbIdx)
    /\ pc = "exited" =>
         /\ exitCode = 0
         /\ outcome = "delivered"
         /\ phaseLog[Len(phaseLog)] = "Done"
         /\ Len(hostCalls) = 2 + Len(approved)

C26_Witness ==
  /\ FallbackEngaged
  /\ pc = "exited"
  /\ Len(approved) = 2
  /\ \A i \in 1..Len(hostCalls) : ~hostCalls[i].ok
  /\ exitCode = 0

\* ---- the counts of a summary ---------------------------------------------------------

Summarized == pc = "returned" /\ fnIn.fn = "summary"

\* C27: in every summary, the critical, warning and suggestion counts sum to
\* the total number of findings stated in the same summary.
C27_CountsSumToTotal ==
  Summarized =>
    fnOut.counts.critical + fnOut.counts.warning + fnOut.counts.suggestion
      = fnOut.counts.total

\* ---- failures inside github_post_review ------------------------------------------------

McpHandled == pc = "returned" /\ fnIn.fn = "mcpPost"

\* gh is unavailable, or the primary call failed with an error that does not
\* lead to the fallback
McpPostingFailed ==
  \/ ~fnIn.ghOk
  \/ (~fnIn.primary.ok /\ ~(fnIn.primary.msg \cap {ThreadToken, ValidationToken} # {}))

\* C28: when posting fails inside github_post_review, the tool returns a result
\* with isError set and the server process keeps running; the success message
\* is returned only when the review was posted.
C28_McpReportsFailure ==
  McpHandled =>
    /\ McpPostingFailed =>
         (fnOut.alive /\ fnOut.result = "error" /\ fnOut.isError)
    /\ fnOut.result = "success" => fnOut.posted # {}

====
